---- MODULE Spec2Model ----
(***************************************************************************)
(* Model of the two batch scripts of the repository:                       *)
(*   DataDownloader.py  the fetcher: 14 x 6 GET requests, concatenation,   *)
(*                      read_csv, drop_duplicates, classify_region,        *)
(*                      sort_values, to_csv                                *)
(*   checkpoint.py      the plotter: makedirs, read_csv, to_datetime/year, *)
(*                      groupby("year").size(), savefig / write_html       *)
(*                                                                         *)
(* Latitudes, longitudes and magnitudes are in tenths (24.6 is 246), so    *)
(* that the float literals of the source are integers here.                *)
(***************************************************************************)
EXTENDS Integers, Sequences, FiniteSets

VARIABLES
    pc,             \* position of the fetcher script
    i,              \* index into date_ranges of the current time period
    j,              \* index into the REGIONS items of the current region
    issued,         \* the GET requests made so far, in order
    response,       \* what the last requests.get produced
    csv_text,       \* what the last download_earthquakes returned
    period_data,    \* DataDownloader.py:109
    all_data,       \* DataDownloader.py:104
    combined_text,  \* DataDownloader.py:135
    df,             \* the fetcher's dataframe, a sequence of rows
    out_csv,        \* us_earthquakes_m4.5_complete.csv
    ppc,            \* position of the plotter script
    fs_dirs,        \* directories that exist under the working directory
    plotly,         \* whether "import plotly.express" succeeds
    next_fig,       \* index of the next savefig of plots 1 to 5
    artifacts,      \* plot files written so far
    in_csv,         \* the CSV the plotter reads
    pdf,            \* the plotter's dataframe
    annual          \* checkpoint.py:25

fetcher_vars == <<pc, i, j, issued, response, csv_text, period_data, all_data,
                  combined_text, df, out_csv>>
plotter_vars == <<ppc, fs_dirs, plotly, next_fig, artifacts,
                  in_csv, pdf, annual>>
vars == <<pc, i, j, issued, response, csv_text, period_data, all_data,
          combined_text, df, out_csv, ppc, fs_dirs, plotly,
          next_fig, artifacts, in_csv, pdf, annual>>

(***************************************************************************)
(* Bounds of the model                                                     *)
(***************************************************************************)
MaxBlobs == 2        \* successful responses in a drawn all_data
MaxRowsPerBlob == 1  \* data lines of one drawn response
Margin == 1          \* tenths of a degree drawn on either side of a bound
MaxCsvRows == 3      \* rows of the CSV drawn for the plotter

(***************************************************************************)
(* The constant tables of DataDownloader.py                                *)
(***************************************************************************)
REGIONS ==
    [ Conterminous_US      |-> [lat_min |-> 246, lat_max |-> 500,
                                lon_min |-> -1250, lon_max |-> -650],
      Alaska_west_dateline |-> [lat_min |-> 500, lat_max |-> 720,
                                lon_min |-> -1800, lon_max |-> -1695],
      Alaska_main          |-> [lat_min |-> 540, lat_max |-> 720,
                                lon_min |-> -1695, lon_max |-> -1290],
      Alaska_east_dateline |-> [lat_min |-> 500, lat_max |-> 720,
                                lon_min |-> 1700, lon_max |-> 1800],
      Hawaii               |-> [lat_min |-> 185, lat_max |-> 225,
                                lon_min |-> -1610, lon_max |-> -1545],
      Puerto_Rico          |-> [lat_min |-> 175, lat_max |-> 188,
                                lon_min |-> -675, lon_max |-> -640] ]

\* REGIONS.items() iterates a dict in insertion order
REGIONS_items ==
    << "Conterminous_US", "Alaska_west_dateline", "Alaska_main",
       "Alaska_east_dateline", "Hawaii", "Puerto_Rico" >>

date_ranges ==
    << <<"1925-01-01", "1934-12-31">>, <<"1935-01-01", "1944-12-31">>,
       <<"1945-01-01", "1954-12-31">>, <<"1955-01-01", "1964-12-31">>,
       <<"1965-01-01", "1974-12-31">>, <<"1975-01-01", "1984-12-31">>,
       <<"1985-01-01", "1994-12-31">>, <<"1995-01-01", "1999-12-31">>,
       <<"2000-01-01", "2004-12-31">>, <<"2005-01-01", "2009-12-31">>,
       <<"2010-01-01", "2014-12-31">>, <<"2015-01-01", "2019-12-31">>,
       <<"2020-01-01", "2024-12-31">>, <<"2025-01-01", "2025-11-02">> >>

(***************************************************************************)
(* Text.  A text is a sequence of tokens: the newline character, or the    *)
(* content of one line (the header line, one data row, the body of an      *)
(* error page).  A line holding several content tokens is what two lines   *)
(* run together look like.                                                 *)
(***************************************************************************)
NoRow == [time |-> 0, latitude |-> 0, longitude |-> 0, mag |-> 0, depth |-> 0]
NL == [k |-> "nl", row |-> NoRow]
HEADER == [k |-> "header", row |-> NoRow]
ERRPAGE == [k |-> "errpage", row |-> NoRow]
RowTok(row) == [k |-> "row", row |-> row]

\* str.split('\n'): the pieces between the newlines, computed by halves (the
\* last piece of the left half and the first of the right half are one piece)
RECURSIVE split(_)
split(s) ==
    IF s = <<>> THEN << <<>> >>
    ELSE IF Len(s) = 1 THEN (IF s[1] = NL THEN << <<>>, <<>> >> ELSE << s >>)
    ELSE LET h == Len(s) \div 2
             L == split(SubSeq(s, 1, h))
             R == split(SubSeq(s, h + 1, Len(s)))
         IN SubSeq(L, 1, Len(L) - 1) \o << L[Len(L)] \o R[1] >> \o Tail(R)

\* '\n'.join(lines), computed by halves
RECURSIVE join(_)
join(lines) ==
    IF lines = <<>> THEN <<>>
    ELSE IF Len(lines) = 1 THEN lines[1]
    ELSE LET h == Len(lines) \div 2 IN
         join(SubSeq(lines, 1, h)) \o <<NL>> \o join(SubSeq(lines, h + 1, Len(lines)))

(***************************************************************************)
(* download_earthquakes                                                    *)
(***************************************************************************)
None == [none |-> TRUE, text |-> <<>>]
Str(text) == [none |-> FALSE, text |-> text]

\* Python truthiness of a value that is None or a str
Truthy(v) == ~v.none /\ v.text # <<>>

\* The rows of the one response body the fetch loop draws: orderby=time is
\* newest first.
LoopRowNew == [time |-> 2, latitude |-> 195, longitude |-> -1550,
               mag |-> 45, depth |-> 10]
LoopRowOld == [time |-> 1, latitude |-> 350, longitude |-> -1000,
               mag |-> 50, depth |-> 5]
LoopBody == <<HEADER, NL, RowTok(LoopRowNew), NL, RowTok(LoopRowOld), NL>>

\* What requests.get can produce: a response with a status and a body, or an
\* exception (timeout, connection error).
Outcomes ==
    { [kind |-> "response", status_code |-> 200, text |-> LoopBody],
      [kind |-> "response", status_code |-> 200, text |-> <<>>],
      [kind |-> "response", status_code |-> 204, text |-> <<>>],
      [kind |-> "response", status_code |-> 503, text |-> <<ERRPAGE>>],
      [kind |-> "exception", status_code |-> 0, text |-> <<>>] }

Failed(o) == o.kind = "exception" \/ o.status_code # 200

download_earthquakes_ignoring_status(o) ==
    IF o.kind = "exception" THEN None ELSE Str(o.text)

download_earthquakes(o) ==
    IF o.kind = "exception" THEN None
    ELSE IF o.status_code = 200 THEN Str(o.text)
    ELSE None

Request(w, r) ==
    [starttime |-> date_ranges[w][1], endtime |-> date_ranges[w][2],
     region_name |-> REGIONS_items[r], bounds |-> REGIONS[REGIONS_items[r]]]

(***************************************************************************)
(* The fetch loop, DataDownloader.py:104-126                               *)
(***************************************************************************)
PlotterIdle ==
    /\ ppc = "idle" /\ fs_dirs = {} /\ plotly = FALSE
    /\ next_fig = 1 /\ artifacts = {} /\ in_csv = <<>> /\ pdf = <<>>
    /\ annual = <<>>

Init ==
    /\ pc = "fetch" /\ i = 1 /\ j = 1
    /\ issued = <<>> /\ response = [kind |-> "none", status_code |-> 0, text |-> <<>>]
    /\ csv_text = None
    /\ period_data = <<>> /\ all_data = <<>>
    /\ combined_text = <<>> /\ df = <<>>
    /\ out_csv = [written |-> FALSE, rows |-> <<>>]
    /\ PlotterIdle

\* A variant of the inner loop body that asks again for a pair that failed.
FetchRegionRetrying ==
    /\ pc = "fetch"
    /\ \E o \in Outcomes :
        LET ret == download_earthquakes(o) IN
        /\ issued' = Append(issued, Request(i, j))
        /\ response' = o
        /\ csv_text' = ret
        /\ period_data' = IF Truthy(ret) THEN Append(period_data, ret.text)
                          ELSE period_data
        /\ IF Failed(o) /\ Len(issued) < Len(date_ranges) * Len(REGIONS_items)
             THEN j' = j /\ pc' = "fetch"
             ELSE IF j < Len(REGIONS_items)
                    THEN j' = j + 1 /\ pc' = "fetch"
                    ELSE j' = j /\ pc' = "extend"
    /\ UNCHANGED <<i, all_data, combined_text, df, out_csv>>
    /\ UNCHANGED plotter_vars

\* One iteration of "for region_name, bounds in REGIONS.items()"
FetchRegion ==
    /\ pc = "fetch"
    /\ \E o \in Outcomes :
        LET ret == download_earthquakes(o) IN
        /\ issued' = Append(issued, Request(i, j))
        /\ response' = o
        /\ csv_text' = ret
        /\ period_data' = IF Truthy(ret) THEN Append(period_data, ret.text)
                          ELSE period_data
    /\ IF j < Len(REGIONS_items)
         THEN j' = j + 1 /\ pc' = "fetch"
         ELSE j' = j /\ pc' = "extend"
    /\ UNCHANGED <<i, all_data, combined_text, df, out_csv>>
    /\ UNCHANGED plotter_vars

\* all_data.extend(period_data), then the next period (period_data = [])
\* or the end of the outer loop
EndPeriod ==
    /\ pc = "extend"
    /\ all_data' = all_data \o period_data
    /\ IF i < Len(date_ranges)
         THEN i' = i + 1 /\ j' = 1 /\ period_data' = <<>> /\ pc' = "fetch"
         ELSE i' = i /\ j' = j /\ period_data' = period_data /\ pc' = "combine"
    /\ UNCHANGED <<issued, response, csv_text, combined_text, df, out_csv>>
    /\ UNCHANGED plotter_vars

(***************************************************************************)
(* Combining the responses, DataDownloader.py:133-149                      *)
(***************************************************************************)
\* A variant of the loop body that appends the data lines without the
\* separating newline.
DataLinesUnseparated(text) ==
    LET lines == split(text) IN
    IF Len(lines) > 1 THEN join(Tail(lines)) ELSE <<>>

\* What the body of "for csv_text in all_data[1:]" adds to combined_text
\* with +=: nothing, or '\n' + '\n'.join(lines[1:])
DataLines(text) ==
    LET lines == split(text) IN
    IF Len(lines) > 1 THEN <<NL>> \o join(Tail(lines)) ELSE <<>>

\* The additions of data[lo..hi] in order, computed by halves
RECURSIVE Additions(_, _, _)
Additions(data, lo, hi) ==
    IF lo > hi THEN <<>>
    ELSE IF lo = hi THEN DataLines(data[lo])
    ELSE LET h == (lo + hi) \div 2 IN
         Additions(data, lo, h) \o Additions(data, h + 1, hi)

\* combined_text after the loop over all_data[1:]
CombineAll(data) == data[1] \o Additions(data, 2, Len(data))

\* pd.read_csv with its defaults: blank lines are skipped, the first line
\* left is the header, every other line is one row.  A line that is not one
\* row of the header's columns is a parser error.
NonBlank(lines) == SelectSeq(lines, LAMBDA l : l # <<>>)

IsRowLine(l) == Len(l) = 1 /\ l[1].k = "row"

read_csv(text) ==
    LET lines == NonBlank(split(text)) IN
    IF /\ lines # <<>>
       /\ Head(lines) = <<HEADER>>
       /\ \A n \in 2..Len(lines) : IsRowLine(lines[n])
    THEN [ok |-> TRUE, rows |-> [n \in 1..(Len(lines) - 1) |-> lines[n + 1][1].row]]
    ELSE [ok |-> FALSE, rows |-> <<>>]

(***************************************************************************)
(* drop_duplicates(subset=['time','latitude','longitude','mag']),          *)
(* keep='first'                                                            *)
(***************************************************************************)
Key(row) == <<row.time, row.latitude, row.longitude, row.mag>>

\* The rows lo..hi whose key (keys[n] is the key of rows[n]) no earlier row
\* has, in order, computed by halves
RECURSIVE KeepFirst(_, _, _, _)
KeepFirst(rows, keys, lo, hi) ==
    IF lo > hi THEN <<>>
    ELSE IF lo = hi
         THEN (IF \E m \in 1..(lo - 1) : keys[m] = keys[lo] THEN <<>>
               ELSE <<rows[lo]>>)
    ELSE LET h == (lo + hi) \div 2 IN
         KeepFirst(rows, keys, lo, h) \o KeepFirst(rows, keys, h + 1, hi)

\* A variant that takes the time alone for the key.
drop_duplicates_on_time(rows) ==
    KeepFirst(rows, [n \in 1..Len(rows) |-> rows[n].time], 1, Len(rows))

drop_duplicates(rows) ==
    KeepFirst(rows, [n \in 1..Len(rows) |-> Key(rows[n])], 1, Len(rows))

(***************************************************************************)
(* classify_region, DataDownloader.py:159-182                              *)
(***************************************************************************)
classify_region_strict(row) ==
    LET lat == row.latitude
        lon == row.longitude
    IN
    IF /\ REGIONS["Alaska_west_dateline"].lat_min < lat
       /\ lat < REGIONS["Alaska_west_dateline"].lat_max
       /\ REGIONS["Alaska_west_dateline"].lon_min < lon
       /\ lon < REGIONS["Alaska_west_dateline"].lon_max
    THEN "Alaska"
    ELSE IF /\ REGIONS["Alaska_main"].lat_min < lat
            /\ lat < REGIONS["Alaska_main"].lat_max
            /\ REGIONS["Alaska_main"].lon_min < lon
            /\ lon < REGIONS["Alaska_main"].lon_max
    THEN "Alaska"
    ELSE IF /\ REGIONS["Alaska_east_dateline"].lat_min < lat
            /\ lat < REGIONS["Alaska_east_dateline"].lat_max
            /\ REGIONS["Alaska_east_dateline"].lon_min < lon
            /\ lon < REGIONS["Alaska_east_dateline"].lon_max
    THEN "Alaska"
    ELSE IF /\ REGIONS["Hawaii"].lat_min < lat
            /\ lat < REGIONS["Hawaii"].lat_max
            /\ REGIONS["Hawaii"].lon_min < lon
            /\ lon < REGIONS["Hawaii"].lon_max
    THEN "Hawaii"
    ELSE IF /\ REGIONS["Puerto_Rico"].lat_min < lat
            /\ lat < REGIONS["Puerto_Rico"].lat_max
            /\ REGIONS["Puerto_Rico"].lon_min < lon
            /\ lon < REGIONS["Puerto_Rico"].lon_max
    THEN "Puerto Rico"
    ELSE "Conterminous US"

\* A variant that labels a row with the name of the box it lies in.
classify_region_box_name(row) ==
    LET lat == row.latitude
        lon == row.longitude
        In(name) == /\ REGIONS[name].lat_min <= lat
                    /\ lat <= REGIONS[name].lat_max
                    /\ REGIONS[name].lon_min <= lon
                    /\ lon <= REGIONS[name].lon_max
    IN
    IF In("Alaska_west_dateline") THEN "Alaska_west_dateline"
    ELSE IF In("Alaska_main") THEN "Alaska_main"
    ELSE IF In("Alaska_east_dateline") THEN "Alaska_east_dateline"
    ELSE IF In("Hawaii") THEN "Hawaii"
    ELSE IF In("Puerto_Rico") THEN "Puerto_Rico"
    ELSE "Conterminous_US"

\* A variant that takes every row of the northern latitudes for Alaska,
\* whatever its longitude.
classify_region_by_latitude(row) ==
    LET lat == row.latitude
        lon == row.longitude
    IN
    IF REGIONS["Alaska_west_dateline"].lat_min <= lat /\ lat <= REGIONS["Alaska_west_dateline"].lat_max
    THEN "Alaska"
    ELSE IF /\ REGIONS["Hawaii"].lat_min <= lat
            /\ lat <= REGIONS["Hawaii"].lat_max
            /\ REGIONS["Hawaii"].lon_min <= lon
            /\ lon <= REGIONS["Hawaii"].lon_max
    THEN "Hawaii"
    ELSE IF /\ REGIONS["Puerto_Rico"].lat_min <= lat
            /\ lat <= REGIONS["Puerto_Rico"].lat_max
            /\ REGIONS["Puerto_Rico"].lon_min <= lon
            /\ lon <= REGIONS["Puerto_Rico"].lon_max
    THEN "Puerto Rico"
    ELSE "Conterminous US"

classify_region(row) ==
    LET lat == row.latitude
        lon == row.longitude
    IN
    IF /\ REGIONS["Alaska_west_dateline"].lat_min <= lat
       /\ lat <= REGIONS["Alaska_west_dateline"].lat_max
       /\ REGIONS["Alaska_west_dateline"].lon_min <= lon
       /\ lon <= REGIONS["Alaska_west_dateline"].lon_max
    THEN "Alaska"
    ELSE IF /\ REGIONS["Alaska_main"].lat_min <= lat
            /\ lat <= REGIONS["Alaska_main"].lat_max
            /\ REGIONS["Alaska_main"].lon_min <= lon
            /\ lon <= REGIONS["Alaska_main"].lon_max
    THEN "Alaska"
    ELSE IF /\ REGIONS["Alaska_east_dateline"].lat_min <= lat
            /\ lat <= REGIONS["Alaska_east_dateline"].lat_max
            /\ REGIONS["Alaska_east_dateline"].lon_min <= lon
            /\ lon <= REGIONS["Alaska_east_dateline"].lon_max
    THEN "Alaska"
    ELSE IF /\ REGIONS["Hawaii"].lat_min <= lat
            /\ lat <= REGIONS["Hawaii"].lat_max
            /\ REGIONS["Hawaii"].lon_min <= lon
            /\ lon <= REGIONS["Hawaii"].lon_max
    THEN "Hawaii"
    ELSE IF /\ REGIONS["Puerto_Rico"].lat_min <= lat
            /\ lat <= REGIONS["Puerto_Rico"].lat_max
            /\ REGIONS["Puerto_Rico"].lon_min <= lon
            /\ lon <= REGIONS["Puerto_Rico"].lon_max
    THEN "Puerto Rico"
    ELSE "Conterminous US"

\* df['region'] = df.apply(classify_region, axis=1)
WithRegion(row) ==
    [time |-> row.time, latitude |-> row.latitude, longitude |-> row.longitude,
     mag |-> row.mag, depth |-> row.depth, region |-> classify_region(row)]

(***************************************************************************)
(* df.sort_values('time'): ascending; rows of equal time keep their order  *)
(***************************************************************************)
\* sign is 1 for ascending=True, -1 for ascending=False
RECURSIVE Insert(_, _, _)
Insert(row, sorted, sign) ==
    IF sorted = <<>> THEN <<row>>
    ELSE IF sign * row.time < sign * Head(sorted).time THEN <<row>> \o sorted
    ELSE <<Head(sorted)>> \o Insert(row, Tail(sorted), sign)

RECURSIVE SortByTime(_, _)
SortByTime(rows, sign) ==
    IF rows = <<>> THEN <<>>
    ELSE Insert(rows[Len(rows)],
                SortByTime(SubSeq(rows, 1, Len(rows) - 1), sign), sign)

\* A variant that sorts newest first, the order the API answers in.
sort_values_descending(rows) == SortByTime(rows, -1)

sort_values(rows) == SortByTime(rows, 1)

(***************************************************************************)
(* The rest of the fetcher, DataDownloader.py:133-210                      *)
(***************************************************************************)
\* "if all_data:" and the concatenation, or the else branch at line 209
Combine ==
    /\ pc = "combine"
    /\ IF all_data # <<>>
         THEN combined_text' = CombineAll(all_data) /\ pc' = "read_csv"
         ELSE combined_text' = combined_text /\ pc' = "done"
    /\ UNCHANGED <<i, j, issued, response, csv_text, period_data, all_data,
                   df, out_csv>>
    /\ UNCHANGED plotter_vars

\* temp_combined.csv written and read back; a parser error is not caught
ReadCsv ==
    /\ pc = "read_csv"
    /\ LET parsed == read_csv(combined_text) IN
       IF parsed.ok THEN df' = parsed.rows /\ pc' = "dedup"
       ELSE df' = df /\ pc' = "crashed"
    /\ UNCHANGED <<i, j, issued, response, csv_text, period_data, all_data,
                   combined_text, out_csv>>
    /\ UNCHANGED plotter_vars

DropDuplicates ==
    /\ pc = "dedup"
    /\ df' = drop_duplicates(df)
    /\ pc' = "classify"
    /\ UNCHANGED <<i, j, issued, response, csv_text, period_data, all_data,
                   combined_text, out_csv>>
    /\ UNCHANGED plotter_vars

Classify ==
    /\ pc = "classify"
    /\ df' = [n \in 1..Len(df) |-> WithRegion(df[n])]
    /\ pc' = "sort"
    /\ UNCHANGED <<i, j, issued, response, csv_text, period_data, all_data,
                   combined_text, out_csv>>
    /\ UNCHANGED plotter_vars

SortValues ==
    /\ pc = "sort"
    /\ df' = sort_values(df)
    /\ pc' = "to_csv"
    /\ UNCHANGED <<i, j, issued, response, csv_text, period_data, all_data,
                   combined_text, out_csv>>
    /\ UNCHANGED plotter_vars

\* df.to_csv(...), the summary, os.remove of the temporary file
ToCsv ==
    /\ pc = "to_csv"
    /\ out_csv' = [written |-> TRUE, rows |-> df]
    /\ pc' = "done"
    /\ UNCHANGED <<i, j, issued, response, csv_text, period_data, all_data,
                   combined_text, df>>
    /\ UNCHANGED plotter_vars

Process == Combine \/ ReadCsv \/ DropDuplicates \/ Classify \/ SortValues \/ ToCsv

Next == FetchRegion \/ EndPeriod \/ Process

Spec == Init /\ [][Next]_vars

(***************************************************************************)
(* The fetcher after its loop, for every short list of responses           *)
(***************************************************************************)
SeqsUpTo(S, n) == UNION {[1..k -> S] : k \in 0..n}

RowA  == [time |-> 2, latitude |-> 195, longitude |-> -1550, mag |-> 45, depth |-> 10]
\* the event of RowA as another query reports it: the same key, another depth
RowA2 == [time |-> 2, latitude |-> 195, longitude |-> -1550, mag |-> 45, depth |-> 33]
RowB  == [time |-> 1, latitude |-> 350, longitude |-> -1000, mag |-> 50, depth |-> 5]
\* another event at the time of RowA
RowC  == [time |-> 2, latitude |-> 600, longitude |-> -1500, mag |-> 45, depth |-> 10]
MergeRows == {RowA, RowA2, RowB, RowC}

RECURSIVE RowLines(_)
RowLines(rows) ==
    IF rows = <<>> THEN <<>>
    ELSE <<NL, RowTok(Head(rows))>> \o RowLines(Tail(rows))

\* A response body: the header line, the data lines, with or without the
\* newline that ends the last line
Body(rows, ends_with_newline) ==
    <<HEADER>> \o RowLines(rows) \o (IF ends_with_newline THEN <<NL>> ELSE <<>>)

Bodies ==
    {Body(rows, e) : rows \in SeqsUpTo(MergeRows, MaxRowsPerBlob), e \in BOOLEAN}

AllRequests ==
    [n \in 1..(Len(date_ranges) * Len(REGIONS_items)) |->
        Request(((n - 1) \div Len(REGIONS_items)) + 1,
                ((n - 1) % Len(REGIONS_items)) + 1)]

\* The state at the end of the fetch loop (the last request failed)
LoopDone ==
    /\ i = Len(date_ranges) /\ j = Len(REGIONS_items)
    /\ issued = AllRequests
    /\ response = [kind |-> "exception", status_code |-> 0, text |-> <<>>]
    /\ csv_text = None
    /\ period_data = <<>>
    /\ out_csv = [written |-> FALSE, rows |-> <<>>]
    /\ PlotterIdle

InitMerge ==
    /\ pc = "combine"
    /\ all_data \in SeqsUpTo(Bodies, MaxBlobs)
    /\ combined_text = <<>> /\ df = <<>>
    /\ LoopDone

SpecMerge == InitMerge /\ [][Process]_vars

(***************************************************************************)
(* classify_region on every coordinate at or next to a bound of a box      *)
(***************************************************************************)
RegionNames == {REGIONS_items[n] : n \in 1..Len(REGIONS_items)}

Near(b) == {b + d : d \in (0 - Margin)..Margin}
Lats == UNION {Near(REGIONS[name].lat_min) \cup Near(REGIONS[name].lat_max) :
               name \in RegionNames}
Lons == UNION {Near(REGIONS[name].lon_min) \cup Near(REGIONS[name].lon_max) :
               name \in RegionNames}

InitClassify ==
    /\ pc = "classify"
    /\ \E lat \in Lats, lon \in Lons :
         LET row == [time |-> 1, latitude |-> lat, longitude |-> lon,
                     mag |-> 45, depth |-> 10]
         IN /\ all_data = << Body(<<row>>, TRUE) >>
            /\ combined_text = Body(<<row>>, TRUE)
            /\ df = <<row>>
    /\ LoopDone

NextClassify == Classify \/ SortValues \/ ToCsv

SpecClassify == InitClassify /\ [][NextClassify]_vars

(***************************************************************************)
(* Claims about the fetch loop                                             *)
(***************************************************************************)
\* The steps the script has taken, as a number that every step raises and
\* that is at most 84 + 14 + 7
StageNo ==
    CASE pc \in {"fetch", "extend"} -> 0
      [] pc = "combine" -> 1
      [] pc = "read_csv" -> 2
      [] pc = "dedup" -> 3
      [] pc = "classify" -> 4
      [] pc = "sort" -> 5
      [] pc = "to_csv" -> 6
      [] OTHER -> 7
Rank == Len(issued) + i + StageNo

\* C1: a request that ends in a non-200 status or in an exception makes
\* download_earthquakes return None, adds nothing to period_data or
\* all_data, and never aborts the run.  Whatever the pattern of failing and
\* succeeding requests, the loop always has its next step, every step of
\* the script moves it forward (so the loop reaches its end and the script
\* its last line), the script never stops on an error, and when nothing
\* was downloaded it ends without writing the output.
C1_FailedRequestAddsNothingRunFinishes ==
    /\ [][(pc = "fetch" /\ Failed(response'))
            => (csv_text' = None /\ period_data' = period_data
                /\ all_data' = all_data /\ pc' \in {"fetch", "extend"})]_vars
    /\ [][Rank' > Rank]_vars
    /\ [](pc \in {"fetch", "extend"} => ENABLED (FetchRegion \/ EndPeriod))
    /\ [](pc \in {"fetch", "extend", "combine", "read_csv", "dedup",
                  "classify", "sort", "to_csv", "done"})
    /\ [](pc = "done" /\ all_data = <<>> => ~out_csv.written)
    /\ [](pc = "done" /\ all_data # <<>> => out_csv.written)

\* the last request answered 503 and the run still wrote its output
C1_Witness ==
    /\ pc = "done" /\ out_csv.written
    /\ response.status_code = 503 /\ csv_text = None
    /\ Len(all_data) = 1

\* C2: exactly one GET per (time window, region box) pair, 14 x 6 = 84 of
\* them, in window-major order, whatever the outcomes; nothing is combined
\* before the 84th request has completed.
C2_OneRequestPerPairWindowMajor ==
    /\ Len(date_ranges) = 14 /\ Len(REGIONS_items) = 6
    /\ Len(issued) <= 84
    /\ \A n \in 1..Len(issued) :
         /\ issued[n].starttime = date_ranges[((n - 1) \div 6) + 1][1]
         /\ issued[n].endtime = date_ranges[((n - 1) \div 6) + 1][2]
         /\ issued[n].region_name = REGIONS_items[((n - 1) % 6) + 1]
    /\ pc \in {"fetch", "extend"} => combined_text = <<>> /\ df = <<>>
    /\ pc \notin {"fetch", "extend"} =>
         /\ Len(issued) = 84
         /\ Cardinality({<<issued[n].starttime, issued[n].region_name>> :
                            n \in 1..Len(issued)}) = 84

\* every request failed, and each pair was still asked for once
C2_Witness ==
    /\ pc = "done" /\ all_data = <<>> /\ Len(issued) = 84
    /\ response.kind = "exception"

(***************************************************************************)
(* The plotter, checkpoint.py                                              *)
(***************************************************************************)
\* os.makedirs(path, exist_ok=True) creates the path and its missing parents
Parents(path) == IF path = "docs/plots" THEN {"docs", "docs/plots"} ELSE {path}

\* checkpoint.py:7
MAKEDIRS_PATH == "plots"

\* The savefig calls of plots 1 to 5, in order
SAVEFIGS ==
    << [dir |-> "docs/plots", name |-> "01_annual_counts.png"],
       [dir |-> "docs/plots", name |-> "02_annual_by_region_stacked.png"],
       [dir |-> "docs/plots", name |-> "02b_annual_by_region_lines.png"],
       [dir |-> "docs/plots", name |-> "03_magnitude_hist.png"],
       [dir |-> "docs/plots", name |-> "03b_magnitude_hist_logy.png"],
       [dir |-> "docs/plots", name |-> "04_depth_by_region_box.png"],
       [dir |-> "docs/plots", name |-> "05_spatial_hexbin.png"] >>
\* checkpoint.py:142 and :152
INTERACTIVE_MAP == [dir |-> "docs/plots", name |-> "06_epicenter_map_interactive.html"]
FALLBACK_MAP == [dir |-> "docs/plots", name |-> "06_epicenter_scatter_fallback.png"]

region_order == <<"Alaska", "Conterminous US", "Hawaii", "Puerto Rico">>

\* The text of a time cell: an instant pandas can parse, of a calendar year
\* (UTC), or anything else
TimeText(year) == [parses |-> TRUE, year |-> year]
Unparsable == [parses |-> FALSE, year |-> 0]

NaT == [nat |-> TRUE, year |-> 0]
NaN == [nan |-> TRUE, v |-> 0]
Num(v) == [nan |-> FALSE, v |-> v]

\* pd.to_datetime(text, errors="coerce", utc=True)
to_datetime(text) ==
    IF text.parses THEN [nat |-> FALSE, year |-> text.year] ELSE NaT

\* .dt.year
dt_year(t) == IF t.nat THEN NaN ELSE Num(t.year)

\* .clip(lower=0)
clip_lower_0(depth) == IF depth < 0 THEN 0 ELSE depth

\* pd.Categorical(values, categories=region_order): a value that is no
\* category becomes missing
Categorical(label) ==
    IF \E n \in 1..Len(region_order) : region_order[n] = label
    THEN [nan |-> FALSE, category |-> label]
    ELSE [nan |-> TRUE, category |-> ""]

\* checkpoint.py:13-20 on one row
Cleaned(row) ==
    [time |-> to_datetime(row.time),
     year |-> dt_year(to_datetime(row.time)),
     depth |-> row.depth,
     depth_clean |-> clip_lower_0(row.depth),
     region |-> Categorical(row.region)]

MinOf(S) == CHOOSE a \in S : \A b \in S : a <= b
MaxOf(S) == CHOOSE a \in S : \A b \in S : b <= a

\* A variant that gives every year from the first to the last a bucket,
\* the empty years a count of 0.
groupby_year_size_every_year(rows) ==
    LET years == {rows[n].year.v : n \in {m \in 1..Len(rows) : ~rows[m].year.nan}} IN
    [y \in (IF years = {} THEN {} ELSE MinOf(years)..MaxOf(years)) |->
        Cardinality({n \in 1..Len(rows) : ~rows[n].year.nan /\ rows[n].year.v = y})]

\* df.groupby("year").size(): one bucket per year that occurs, rows whose
\* year is missing are left out (dropna=True)
groupby_year_size(rows) ==
    LET years == {rows[n].year.v : n \in {m \in 1..Len(rows) : ~rows[m].year.nan}} IN
    [y \in years |->
        Cardinality({n \in 1..Len(rows) : ~rows[n].year.nan /\ rows[n].year.v = y})]

\* The rows the input CSV is drawn from
CsvRows ==
    { [time |-> TimeText(1925), depth |-> 10, region |-> "Alaska"],
      [time |-> TimeText(1926), depth |-> -1, region |-> "Hawaii"],
      [time |-> TimeText(1927), depth |-> 35, region |-> "Conterminous US"],
      [time |-> Unparsable, depth |-> 5, region |-> "Puerto Rico"] }

FetcherIdle ==
    /\ pc = "idle" /\ i = 1 /\ j = 1
    /\ issued = <<>> /\ response = [kind |-> "none", status_code |-> 0, text |-> <<>>]
    /\ csv_text = None
    /\ period_data = <<>> /\ all_data = <<>>
    /\ combined_text = <<>> /\ df = <<>>
    /\ out_csv = [written |-> FALSE, rows |-> <<>>]

\* The working directory holds the input CSV, and either nothing else or
\* the docs/plots directory of the repository.
InitPlot ==
    /\ ppc = "makedirs"
    /\ fs_dirs \in { {}, {"docs", "docs/plots"} }
    /\ plotly \in BOOLEAN
    /\ in_csv \in SeqsUpTo(CsvRows, MaxCsvRows) \ {<<>>}
    /\ next_fig = 1 /\ artifacts = {} /\ pdf = <<>> /\ annual = <<>>
    /\ FetcherIdle

\* checkpoint.py:7
Makedirs ==
    /\ ppc = "makedirs"
    /\ fs_dirs' = fs_dirs \cup Parents(MAKEDIRS_PATH)
    /\ ppc' = "read_csv"
    /\ UNCHANGED <<plotly, next_fig, artifacts, in_csv, pdf, annual>>
    /\ UNCHANGED fetcher_vars

\* checkpoint.py:10
PlotReadCsv ==
    /\ ppc = "read_csv"
    /\ pdf' = in_csv
    /\ ppc' = "cleanup"
    /\ UNCHANGED <<fs_dirs, plotly, next_fig, artifacts, in_csv, annual>>
    /\ UNCHANGED fetcher_vars

\* checkpoint.py:13-20
Cleanup ==
    /\ ppc = "cleanup"
    /\ pdf' = [n \in 1..Len(pdf) |-> Cleaned(pdf[n])]
    /\ ppc' = "annual"
    /\ UNCHANGED <<fs_dirs, plotly, next_fig, artifacts, in_csv, annual>>
    /\ UNCHANGED fetcher_vars

\* checkpoint.py:25
Annual ==
    /\ ppc = "annual"
    /\ annual' = groupby_year_size(pdf)
    /\ ppc' = "savefig"
    /\ UNCHANGED <<fs_dirs, plotly, next_fig, artifacts, in_csv, pdf>>
    /\ UNCHANGED fetcher_vars

\* One plt.savefig of plots 1 to 5: FileNotFoundError, uncaught, when the
\* directory of the path does not exist
Savefig ==
    /\ ppc = "savefig"
    /\ IF SAVEFIGS[next_fig].dir \in fs_dirs
         THEN /\ artifacts' = artifacts \cup {SAVEFIGS[next_fig]}
              /\ IF next_fig < Len(SAVEFIGS)
                   THEN next_fig' = next_fig + 1 /\ ppc' = "savefig"
                   ELSE next_fig' = next_fig /\ ppc' = "plot6"
         ELSE artifacts' = artifacts /\ next_fig' = next_fig /\ ppc' = "crashed"
    /\ UNCHANGED <<fs_dirs, plotly, in_csv, pdf, annual>>
    /\ UNCHANGED fetcher_vars

\* checkpoint.py:127-153: only ImportError is caught
Plot6 ==
    /\ ppc = "plot6"
    /\ LET path == IF plotly THEN INTERACTIVE_MAP ELSE FALLBACK_MAP IN
       IF path.dir \in fs_dirs
         THEN artifacts' = artifacts \cup {path} /\ ppc' = "done"
         ELSE artifacts' = artifacts /\ ppc' = "crashed"
    /\ UNCHANGED <<fs_dirs, plotly, next_fig, in_csv, pdf, annual>>
    /\ UNCHANGED fetcher_vars

NextPlot == Makedirs \/ PlotReadCsv \/ Cleanup \/ Annual \/ Savefig \/ Plot6

SpecPlot == InitPlot /\ [][NextPlot]_vars

(***************************************************************************)
(* Claims about combining, deduplicating and sorting                       *)
(***************************************************************************)
\* The lines of a text: the pieces between newlines that are not empty
LinesOf(text) == NonBlank(split(text))

RECURSIVE ExpectedDataLines(_)
ExpectedDataLines(data) ==
    IF data = <<>> THEN <<>>
    ELSE Tail(LinesOf(Head(data))) \o ExpectedDataLines(Tail(data))

RECURSIVE SumOfDataLineCounts(_)
SumOfDataLineCounts(data) ==
    IF data = <<>> THEN 0
    ELSE (Len(LinesOf(Head(data))) - 1) + SumOfDataLineCounts(Tail(data))

\* C3: for every list of successful responses (a header line and zero or
\* more data lines, with or without a final newline) the combined text has
\* the header once, as its first line, then exactly the data lines of the
\* responses in order, none lost, repeated or run together; and the rows
\* parsed from it number the sum of each response's lines minus its header.
C3_CombinedTextKeepsEveryDataLine ==
    /\ pc = "read_csv" =>
         LET lines == LinesOf(combined_text) IN
         /\ lines # <<>>
         /\ lines[1] = <<HEADER>>
         /\ Cardinality({n \in 1..Len(lines) :
                           \E t \in 1..Len(lines[n]) : lines[n][t] = HEADER}) = 1
         /\ Tail(lines) = ExpectedDataLines(all_data)
    /\ pc = "dedup" => Len(df) = SumOfDataLineCounts(all_data)

\* two responses with a row each, the first without a final newline
C3_Witness ==
    /\ pc = "dedup" /\ Len(all_data) = 2 /\ Len(df) = 2
    /\ all_data[1][Len(all_data[1])] # NL
    /\ all_data[2][Len(all_data[2])] = NL

KeysOf(rows) == {Key(rows[n]) : n \in 1..Len(rows)}

NoTwoRowsShareAKey(rows) ==
    \A m, n \in 1..Len(rows) : m # n => Key(rows[m]) # Key(rows[n])

\* C4: after the deduplication pass no two rows share the key (time,
\* latitude, longitude, mag) and every key of the combined input is still
\* there, once; two responses with the same one row give that row once.
C4_DedupKeepsEachKeyOnce ==
    pc \in {"classify", "sort", "to_csv", "done"} =>
        LET raw == read_csv(combined_text).rows IN
        /\ NoTwoRowsShareAKey(df)
        /\ KeysOf(df) = KeysOf(raw)
        /\ pc = "classify" => \A n \in 1..Len(df) : \E m \in 1..Len(raw) : raw[m] = df[n]
        /\ (Len(raw) = 2 /\ raw[1] = raw[2]) => Len(df) = 1

\* two responses of identical header and the same one data row
C4_Witness ==
    /\ pc = "classify"
    /\ all_data = << Body(<<RowA>>, TRUE), Body(<<RowA>>, TRUE) >>
    /\ df = <<RowA>>

\* C7: the CSV written is deduplicated and sorted by time ascending: of two
\* consecutive rows the first is not later than the second, whatever the
\* order of the responses.
C7_OutputSortedByTime ==
    out_csv.written =>
        /\ \A n \in 1..(Len(out_csv.rows) - 1) :
             out_csv.rows[n].time <= out_csv.rows[n + 1].time
        /\ NoTwoRowsShareAKey(out_csv.rows)
        /\ KeysOf(out_csv.rows) = KeysOf(read_csv(combined_text).rows)

\* the responses came newest first and the file is oldest first
C7_Witness ==
    /\ out_csv.written /\ Len(out_csv.rows) = 2
    /\ out_csv.rows[1].time < out_csv.rows[2].time
    /\ read_csv(combined_text).rows[1].time > read_csv(combined_text).rows[2].time

(***************************************************************************)
(* Claims about classify_region                                            *)
(***************************************************************************)
InBox(name, lat, lon) ==
    /\ REGIONS[name].lat_min <= lat /\ lat <= REGIONS[name].lat_max
    /\ REGIONS[name].lon_min <= lon /\ lon <= REGIONS[name].lon_max

StrictlyInBox(name, lat, lon) ==
    /\ REGIONS[name].lat_min < lat /\ lat < REGIONS[name].lat_max
    /\ REGIONS[name].lon_min < lon /\ lon < REGIONS[name].lon_max

AlaskaBoxes == {"Alaska_west_dateline", "Alaska_main", "Alaska_east_dateline"}

PrecedenceLabel(lat, lon) ==
    IF \E name \in AlaskaBoxes : InBox(name, lat, lon) THEN "Alaska"
    ELSE IF InBox("Hawaii", lat, lon) THEN "Hawaii"
    ELSE IF InBox("Puerto_Rico", lat, lon) THEN "Puerto Rico"
    ELSE "Conterminous US"

Classified == pc \in {"sort", "to_csv", "done"}

\* C5: classify_region labels a row 'Alaska' if it lies in any of the three
\* Alaska boxes, otherwise 'Hawaii' if in the Hawaii box, otherwise 'Puerto
\* Rico' if in the Puerto Rico box, otherwise 'Conterminous US', bounds
\* inclusive; a row strictly inside the Hawaii box and outside the Alaska
\* boxes is 'Hawaii'.
C5_LabelFollowsPrecedence ==
    Classified =>
        \A n \in 1..Len(df) :
            /\ df[n].region = PrecedenceLabel(df[n].latitude, df[n].longitude)
            /\ (/\ StrictlyInBox("Hawaii", df[n].latitude, df[n].longitude)
                /\ \A name \in AlaskaBoxes : ~InBox(name, df[n].latitude, df[n].longitude))
               => df[n].region = "Hawaii"

\* a row on the north-east corner of the Hawaii box
C5_Witness ==
    /\ pc = "sort"
    /\ df[1].latitude = REGIONS["Hawaii"].lat_max
    /\ df[1].longitude = REGIONS["Hawaii"].lon_max
    /\ df[1].region = "Hawaii"

\* C6: every row of the output CSV carries one of the four labels Alaska,
\* Conterminous US, Hawaii, Puerto Rico, never the name of a fetch box and
\* never nothing, so each label is a category of the plotter's region_order.
C6_LabelIsOneOfFour ==
    out_csv.written =>
        \A n \in 1..Len(out_csv.rows) :
            /\ out_csv.rows[n].region \in
                 {"Alaska", "Conterminous US", "Hawaii", "Puerto Rico"}
            /\ \E k \in 1..Len(region_order) :
                 region_order[k] = out_csv.rows[n].region
            /\ ~Categorical(out_csv.rows[n].region).nan

\* a row of the Puerto Rico box, whose label is not the name of its box
C6_Witness ==
    /\ out_csv.written /\ Len(out_csv.rows) = 1
    /\ InBox("Puerto_Rico", out_csv.rows[1].latitude, out_csv.rows[1].longitude)
    /\ out_csv.rows[1].region = "Puerto Rico"

\* The region a fetch box belongs to
LogicalRegion(name) ==
    IF name \in AlaskaBoxes THEN "Alaska"
    ELSE IF name = "Conterminous_US" THEN "Conterminous US"
    ELSE IF name = "Puerto_Rico" THEN "Puerto Rico"
    ELSE "Hawaii"

\* C9 as claimed: some coordinate inside one of the six fetch boxes (bounds
\* inclusive) gets a label other than the region of that box.
C9_SomeLabelDisagreesWithFetchBox ==
    Classified =>
        \E lat \in Lats, lon \in Lons, name \in RegionNames :
            /\ InBox(name, lat, lon)
            /\ classify_region([latitude |-> lat, longitude |-> lon])
                 # LogicalRegion(name)

\* C9 as amended: boxes of different regions share no point, so the label
\* of a row inside a fetch box is always the region of that box.
C9_LabelAgreesWithFetchBox ==
    Classified =>
        \A n \in 1..Len(df) : \A name \in RegionNames :
            InBox(name, df[n].latitude, df[n].longitude)
                => df[n].region = LogicalRegion(name)

\* a row on the northern edge of the Conterminous_US box, the latitude at
\* which two Alaska boxes begin
C9_Witness ==
    /\ pc = "sort"
    /\ df[1].latitude = REGIONS["Alaska_west_dateline"].lat_min
    /\ InBox("Conterminous_US", df[1].latitude, df[1].longitude)
    /\ df[1].region = "Conterminous US"

(***************************************************************************)
(* Claims about the plotter                                                *)
(***************************************************************************)
ParsableRows == {n \in 1..Len(in_csv) : in_csv[n].time.parses}
YearsWithRows == {in_csv[n].time.year : n \in ParsableRows}

RECURSIVE SumOfCounts(_, _)
SumOfCounts(f, S) ==
    IF S = {} THEN 0
    ELSE LET y == CHOOSE y \in S : TRUE IN f[y] + SumOfCounts(f, S \ {y})

AnnualComputed == ppc \in {"savefig", "plot6", "done", "crashed"}

BucketsArePerYearWithRows ==
    /\ DOMAIN annual = YearsWithRows
    /\ \A y \in DOMAIN annual : annual[y] >= 1
    /\ YearsWithRows # {} =>
         Cardinality(DOMAIN annual) <= MaxOf(YearsWithRows) - MinOf(YearsWithRows) + 1

\* C8 as claimed: the annual counts have one bucket per year that has a
\* row, at most Y2 - Y1 + 1 of them, and sum to the number N of rows.
C8_AnnualCountsSumToN ==
    AnnualComputed =>
        /\ BucketsArePerYearWithRows
        /\ SumOfCounts(annual, DOMAIN annual) = Len(in_csv)

\* C8 as amended: the counts sum to the number of rows whose time parses
\* (N when every time parses); each bucket counts the rows of its year.
C8_AnnualCountsSumToParsableRows ==
    AnnualComputed =>
        /\ BucketsArePerYearWithRows
        /\ \A y \in DOMAIN annual :
             annual[y] = Cardinality({n \in ParsableRows : in_csv[n].time.year = y})
        /\ SumOfCounts(annual, DOMAIN annual) = Cardinality(ParsableRows)
        /\ Cardinality(ParsableRows) = Len(in_csv)
             => SumOfCounts(annual, DOMAIN annual) = Len(in_csv)

\* three rows: two years with a year without rows between them, and a row
\* whose time does not parse
C8_Witness ==
    /\ ppc = "savefig" /\ Len(in_csv) = 3
    /\ YearsWithRows = {1925, 1927}
    /\ DOMAIN annual = {1925, 1927}
    /\ Cardinality(ParsableRows) = 2

OutputPaths ==
    {SAVEFIGS[n] : n \in 1..Len(SAVEFIGS)} \cup {INTERACTIVE_MAP, FALLBACK_MAP}

\* C10: the script creates the directory of every output path before it
\* writes: once os.makedirs has run, the directory of every savefig /
\* write_html path exists, the script does not stop on a missing directory,
\* and at the end the seven images of plots 1 to 5 and one map are written.
C10_OutputDirectoryIsCreated ==
    /\ ppc \notin {"idle", "makedirs"} =>
         \A path \in OutputPaths : path.dir \in fs_dirs
    /\ ppc # "crashed"
    /\ ppc = "done" => Cardinality(artifacts) = Len(SAVEFIGS) + 1
====
